---- MODULE Spec2Model ----
(***************************************************************************)
(* Model of the refresh cache (src/scheduler.py, DataScheduler), of the    *)
(* series fetcher it drives (src/data_fetcher.py) and of the analytics     *)
(* engine (src/analytics.py) of the U.S. LNG dashboard.                    *)
(*                                                                         *)
(* Time is counted in minutes: the background loop sleeps 60 seconds       *)
(* (scheduler.py:85) and every interval of config.py is a whole number of  *)
(* minutes.  Python dicts are functions whose DOMAIN is the set of keys    *)
(* present; None is the empty set and a value v is the singleton {v}.      *)
(*                                                                         *)
(* The HTTP exchange of fetch_series / fetch_news is outside the program:  *)
(* its outcome is an input.  fetch_series returns a non-empty frame        *)
(* (data_fetcher.py:88) or an empty one (lines 22, 91, 95, 98).  With the  *)
(* ids of Config.EIA_SERIES as they stand ('NG.<id>.M') no branch of       *)
(* lines 49-63 matches, `freq` is unbound at line 66 and the call ends at  *)
(* line 98 with an empty frame; the model keeps both outcomes so that the  *)
(* scheduler is checked against every return of the fetcher.               *)
(***************************************************************************)
EXTENDS Integers, Sequences, FiniteSets, TLC

VARIABLES
    now,          \* wall clock, minutes since construction (datetime.now())
    data_cache,   \* DataScheduler.data_cache : name -> snapshot
    last_update,  \* DataScheduler.last_update : name -> time
    next_run,     \* schedule jobs: name -> next_run of the job of that name
    pc,           \* position of the worker thread in run_scheduler
    upd,          \* position of the worker inside update_*_data ("idle" outside)
    cur,          \* dataset of the update_*_data call in progress
    results,      \* local `results` / `news_data` of the fetch in progress
    idx,          \* loop position of fetch_multiple_series
    slow,         \* minutes spent in HTTP exchanges so far
    runq,         \* runnable jobs of the run_pending call in progress
    rpc,          \* position of the reader thread in get_cached_data
    rname,        \* its argument data_type
    rret,         \* its return value
    attempts,     \* history: number of update_*_data calls per dataset
    pre,          \* history: cache entry and timestamp of cur when the call began
    failed,       \* history: the fetch of the call in progress raised or came back empty
    any_failed,   \* history: some refresh attempt has failed so far
    whole,        \* history: per dataset, the last dict a fetch returned and a refresh stored
    looped,       \* history: run_pending was called at least once
    tick_due,     \* history: datasets due by last_update when the tick began
    tick_ran,     \* history: datasets attempted during the tick
    storage_df,   \* analytics input: sequence of observations
    current_year, \* analytics input: datetime.now().year
    percentile_df,\* analytics output: sequence of percentile records
    pools,        \* history: per input row, the rows of its historical_data
    anomalies,    \* analytics output: the dict detect_storage_anomalies returns
    lng_data,     \* analytics input: the cached dict of LNG series
    growth_df,    \* analytics output: rows of calculate_lng_export_growth
    utilization_df, \* analytics output: rows of calculate_lng_utilization
    apc           \* position of the analytics caller

vars == <<now, data_cache, last_update, next_run, pc, upd, cur, results, idx,
          slow, runq, rpc, rname, rret, attempts, pre, failed, any_failed, whole, looped,
          tick_due, tick_ran, storage_df, current_year, percentile_df, pools,
          anomalies, lng_data, growth_df, utilization_df, apc>>

schedVars == <<now, data_cache, last_update, next_run, pc, upd, cur, results,
               idx, slow, runq, attempts, pre, failed, any_failed, whole, looped,
               tick_due, tick_ran>>
readVars == <<rpc, rname, rret>>
anaVars == <<storage_df, current_year, percentile_df, pools, anomalies,
             lng_data, growth_df, utilization_df, apc>>

----------------------------------------------------------------------------
(* Bounds *)

MaxNow == 61            \* horizon of the clock, minutes
MaxSeries == 2          \* sub-series fetched per EIA dataset (a prefix of the table)
MaxFetchMinutes == 1    \* minutes that the HTTP exchanges of a run take in total

----------------------------------------------------------------------------
(* Configuration, src/config.py *)

LNG_DATA_REFRESH == 60
STORAGE_DATA_REFRESH == 1440
NEWS_REFRESH == 15
SleepMinutes == 1

Names == {"lng_data", "storage_data", "news_data"}

\* keys of Config.EIA_SERIES in table order
EIA_SERIES ==
    <<"lng_total", "lng_sabine_pass", "lng_corpus_christi", "lng_cameron",
      "lng_freeport", "lng_cove_point", "lng_elba_island",
      "storage_total", "storage_east", "storage_west", "storage_producing",
      "production_total", "production_associated", "production_dry",
      "consumption_power", "consumption_industrial", "consumption_residential",
      "consumption_commercial", "consumption_total">>

Min(a, b) == IF a < b THEN a ELSE b

\* k.startswith(prefix) over the table: lng_ keys are entries 1..7, storage_ keys 8..11
StartsWith(i, prefix) ==
    CASE prefix = "lng_" -> i \in 1..7
      [] prefix = "storage_" -> i \in 8..11
      [] OTHER -> FALSE

IsPrefixed(k, prefix) == \E i \in 1..Len(EIA_SERIES) : EIA_SERIES[i] = k /\ StartsWith(i, prefix)

\* {k: v for k, v in Config.EIA_SERIES.items() if k.startswith(prefix)}, cut to MaxSeries
SeriesDict(prefix) ==
    LET all == SelectSeq(EIA_SERIES, LAMBDA k : IsPrefixed(k, prefix))
    IN SubSeq(all, 1, Min(MaxSeries, Len(all)))

Prefix(n) == IF n = "lng_data" THEN "lng_" ELSE "storage_"

Interval(n) ==
    CASE n = "lng_data" -> LNG_DATA_REFRESH
      [] n = "storage_data" -> STORAGE_DATA_REFRESH
      [] n = "news_data" -> NEWS_REFRESH

\* the order in which run_scheduler registers its jobs
JobOrder == <<"lng_data", "storage_data", "news_data">>

----------------------------------------------------------------------------
(* Python values *)

None == {}
Some(v) == {v}
EmptyDict == [k \in {} |-> 0]
Get(d, k) == IF k \in DOMAIN d THEN Some(d[k]) ELSE None
Put(d, k, v) == [x \in DOMAIN d \cup {k} |-> IF x = k THEN v ELSE d[x]]
Get2(d, k) == IF k \in DOMAIN d THEN d[k] ELSE EmptyDict

----------------------------------------------------------------------------
(* The schedule library as run_scheduler uses it *)

\* Job.should_run: datetime.now() >= self.next_run
ShouldRun(n) == n \in DOMAIN next_run /\ now >= next_run[n]

\* sorted(runnable_jobs): ascending next_run, stable for equal next_run
RECURSIVE InsertJob(_, _)
InsertJob(q, n) ==
    IF q = <<>> THEN <<n>>
    ELSE IF next_run[n] < next_run[Head(q)] THEN <<n>> \o q
    ELSE <<Head(q)>> \o InsertJob(Tail(q), n)

RECURSIVE SortJobs(_)
SortJobs(q) ==
    IF q = <<>> THEN <<>>
    ELSE InsertJob(SortJobs(SubSeq(q, 1, Len(q) - 1)), q[Len(q)])

Runnable == SortJobs(SelectSeq(JobOrder, ShouldRun))

----------------------------------------------------------------------------
(* DataScheduler.update_lng_data / update_storage_data / update_news_data *)

\* variant of Truthy: the emptiness test is lost
Truthy_always(r) == TRUE

\* `if lng_data:` - a dict or list is true when it is not empty
Truthy(r) == DOMAIN r # {}

\* variant of OnException: no except clause, the exception ends the thread
OnException_escapes == "dead"

\* where the worker goes when the body of the try block raises: the except
\* clause logs and the function returns
OnException == "ret"

\* the moment update_*_data is entered
BeginUpdate(n) ==
    /\ upd' = "fetch"
    /\ cur' = n
    /\ results' = EmptyDict
    /\ idx' = 1
    /\ attempts' = [attempts EXCEPT ![n] = @ + 1]
    /\ pre' = [cache |-> Get(data_cache, n), lu |-> Get(last_update, n)]
    /\ failed' = FALSE

\* variant of fetch_series: the loop fills the cached dict in place
fetch_series_in_place ==
    /\ upd = "fetch"
    /\ cur # "news_data"
    /\ idx <= Len(SeriesDict(Prefix(cur)))
    /\ \E ok \in BOOLEAN, d \in 0..(MaxFetchMinutes - slow) :
        /\ now + d <= MaxNow
        /\ slow' = slow + d
        /\ now' = now + d
        /\ results' = IF ok THEN Put(results, SeriesDict(Prefix(cur))[idx], attempts[cur])
                      ELSE results
    /\ data_cache' = Put(data_cache, cur,
                         [k \in DOMAIN Get2(data_cache, cur) \cup DOMAIN results' |->
                            IF k \in DOMAIN results' THEN results'[k]
                            ELSE data_cache[cur][k]])
    /\ idx' = idx + 1
    /\ UNCHANGED <<last_update, next_run, pc, upd, cur, runq,
                   attempts, pre, failed, whole, looped, tick_due, tick_ran>>
    /\ UNCHANGED any_failed /\ UNCHANGED readVars /\ UNCHANGED anaVars

\* one round of the loop of fetch_multiple_series: fetch_series returns a
\* non-empty frame (ok) or an empty one after d minutes
fetch_series ==
    /\ upd = "fetch"
    /\ cur # "news_data"
    /\ idx <= Len(SeriesDict(Prefix(cur)))
    /\ \E ok \in BOOLEAN, d \in 0..(MaxFetchMinutes - slow) :
        /\ now + d <= MaxNow
        /\ slow' = slow + d
        /\ now' = now + d
        /\ results' = IF ok THEN Put(results, SeriesDict(Prefix(cur))[idx], attempts[cur])
                      ELSE results
    /\ idx' = idx + 1
    /\ UNCHANGED <<data_cache, last_update, next_run, pc, upd, cur, runq,
                   attempts, pre, failed, whole, looped, tick_due, tick_ran>>
    /\ UNCHANGED any_failed /\ UNCHANGED readVars /\ UNCHANGED anaVars

\* fetch_multiple_series returns `results`
fetch_multiple_series ==
    /\ upd = "fetch"
    /\ cur # "news_data"
    /\ idx > Len(SeriesDict(Prefix(cur)))
    /\ upd' = "check"
    /\ UNCHANGED <<now, data_cache, last_update, next_run, pc, cur, results, idx,
                   runq, attempts, pre, failed, whole, looped, tick_due, tick_ran>>
    /\ UNCHANGED slow /\ UNCHANGED any_failed /\ UNCHANGED readVars /\ UNCHANGED anaVars

\* NewsDataFetcher.fetch_news returns the articles of one response, or []
fetch_news ==
    /\ upd = "fetch"
    /\ cur = "news_data"
    /\ \E ok \in BOOLEAN, d \in 0..(MaxFetchMinutes - slow) :
        /\ now + d <= MaxNow
        /\ slow' = slow + d
        /\ now' = now + d
        /\ results' = IF ok THEN Put(EmptyDict, "articles", attempts[cur]) ELSE EmptyDict
    /\ upd' = "check"
    /\ UNCHANGED <<data_cache, last_update, next_run, pc, cur, idx, runq,
                   attempts, pre, failed, whole, looped, tick_due, tick_ran>>
    /\ UNCHANGED any_failed /\ UNCHANGED readVars /\ UNCHANGED anaVars

\* the fetch call raises inside the try block.  fetch_series and fetch_news
\* catch every exception of their own body (data_fetcher.py:93-98, 151-156),
\* so what is left to raise is the code ahead of the first exchange
fetch_raises ==
    /\ upd = "fetch"
    /\ idx = 1
    /\ results = EmptyDict
    /\ upd' = OnException
    /\ failed' = TRUE
    /\ any_failed' = TRUE
    /\ UNCHANGED <<now, data_cache, last_update, next_run, pc, cur, results, idx,
                   runq, attempts, pre, whole, looped, tick_due, tick_ran>>
    /\ UNCHANGED slow /\ UNCHANGED readVars /\ UNCHANGED anaVars

\* `if lng_data:` ... `else: logger.warning(...)`
check_result ==
    /\ upd = "check"
    /\ upd' = IF Truthy(results) THEN "store" ELSE "ret"
    /\ failed' = (DOMAIN results = {})
    /\ any_failed' = (any_failed \/ DOMAIN results = {})
    /\ UNCHANGED <<now, data_cache, last_update, next_run, pc, cur, results, idx,
                   runq, attempts, pre, whole, looped, tick_due, tick_ran>>
    /\ UNCHANGED slow /\ UNCHANGED readVars /\ UNCHANGED anaVars

\* variant of store_cache: the new sub-series are merged into the stored dict
store_cache_merges ==
    /\ upd = "store"
    /\ data_cache' = Put(data_cache, cur,
                         [k \in DOMAIN Get2(data_cache, cur) \cup DOMAIN results |->
                            IF k \in DOMAIN results THEN results[k] ELSE data_cache[cur][k]])
    /\ whole' = Put(whole, cur, results)
    /\ upd' = "stamp"
    /\ UNCHANGED <<now, last_update, next_run, pc, cur, results, idx, runq,
                   attempts, pre, failed, looped, tick_due, tick_ran>>
    /\ UNCHANGED slow /\ UNCHANGED any_failed /\ UNCHANGED readVars /\ UNCHANGED anaVars

\* self.data_cache[name] = data
store_cache ==
    /\ upd = "store"
    /\ data_cache' = Put(data_cache, cur, results)
    /\ whole' = Put(whole, cur, results)
    /\ upd' = "stamp"
    /\ UNCHANGED <<now, last_update, next_run, pc, cur, results, idx, runq,
                   attempts, pre, failed, looped, tick_due, tick_ran>>
    /\ UNCHANGED slow /\ UNCHANGED any_failed /\ UNCHANGED readVars /\ UNCHANGED anaVars

\* self.last_update[name] = datetime.now()
store_last_update ==
    /\ upd = "stamp"
    /\ last_update' = Put(last_update, cur, now)
    /\ upd' = "ret"
    /\ UNCHANGED <<now, data_cache, next_run, pc, cur, results, idx, runq,
                   attempts, pre, failed, whole, looped, tick_due, tick_ran>>
    /\ UNCHANGED slow /\ UNCHANGED any_failed /\ UNCHANGED readVars /\ UNCHANGED anaVars

----------------------------------------------------------------------------
(* DataScheduler.run_scheduler and start_background_scheduler *)

\* variant of AfterInitialLoad: the news call of the initial load is skipped
AfterInitialLoad_skips(site) ==
    CASE site = "L78" -> "L79"
      [] site = "L79" -> "L84"
      [] site = "L80" -> "L84"

\* the statement that follows an initial-load call
AfterInitialLoad(site) ==
    CASE site = "L78" -> "L79"
      [] site = "L79" -> "L80"
      [] site = "L80" -> "L84"

InitialLoadOf(site) ==
    CASE site = "L78" -> "lng_data"
      [] site = "L79" -> "storage_data"
      [] site = "L80" -> "news_data"

\* threading.Thread(target=self.run_scheduler, daemon=True).start()
start_background_scheduler ==
    /\ pc = "new"
    /\ pc' = "L73"
    /\ UNCHANGED <<now, data_cache, last_update, next_run, upd, cur, results, idx,
                   runq, attempts, pre, failed, whole, looped, tick_due, tick_ran>>
    /\ UNCHANGED slow /\ UNCHANGED any_failed /\ UNCHANGED readVars /\ UNCHANGED anaVars

\* schedule.every(N).minutes.do(job): next_run = now + N minutes
register_jobs ==
    /\ pc = "L73"
    /\ next_run' = [n \in Names |-> now + Interval(n)]
    /\ pc' = "L78"
    /\ UNCHANGED <<now, data_cache, last_update, upd, cur, results, idx, runq,
                   attempts, pre, failed, whole, looped, tick_due, tick_ran>>
    /\ UNCHANGED slow /\ UNCHANGED any_failed /\ UNCHANGED readVars /\ UNCHANGED anaVars

\* the three calls of the initial data load
initial_load ==
    /\ pc \in {"L78", "L79", "L80"}
    /\ upd = "idle"
    /\ BeginUpdate(InitialLoadOf(pc))
    /\ UNCHANGED <<now, data_cache, last_update, next_run, pc, runq, whole,
                   looped, tick_due, tick_ran>>
    /\ UNCHANGED slow /\ UNCHANGED any_failed /\ UNCHANGED readVars /\ UNCHANGED anaVars

\* the datasets the spec calls due: never refreshed, or refreshed at least
\* one interval ago
DueByLastUpdate(n) ==
    \/ n \notin DOMAIN last_update
    \/ now - last_update[n] >= Interval(n)

\* schedule.run_pending() with a runnable job: collect and sort the runnable jobs
run_pending ==
    /\ pc = "L84"
    /\ Runnable # <<>>
    /\ runq' = Runnable
    /\ pc' = "L84run"
    /\ looped' = TRUE
    /\ tick_due' = {n \in Names : DueByLastUpdate(n)}
    /\ tick_ran' = {}
    /\ UNCHANGED <<now, data_cache, last_update, next_run, upd, cur, results, idx,
                   attempts, pre, failed, whole>>
    /\ UNCHANGED slow /\ UNCHANGED any_failed /\ UNCHANGED readVars /\ UNCHANGED anaVars

\* one round of the loop in which no job is runnable: schedule.run_pending()
\* returns at once and time.sleep(60) follows
idle_tick ==
    /\ pc = "L84"
    /\ Runnable = <<>>
    /\ now + SleepMinutes <= MaxNow
    /\ now' = now + SleepMinutes
    /\ looped' = TRUE
    /\ tick_due' = {n \in Names : DueByLastUpdate(n)}
    /\ tick_ran' = {}
    /\ UNCHANGED <<data_cache, last_update, next_run, pc, upd, cur, results, idx,
                   runq, attempts, pre, failed, whole>>
    /\ UNCHANGED slow /\ UNCHANGED any_failed /\ UNCHANGED readVars /\ UNCHANGED anaVars

\* Job.run: call job_func
run_job ==
    /\ pc = "L84run"
    /\ upd = "idle"
    /\ runq # <<>>
    /\ BeginUpdate(Head(runq))
    /\ tick_ran' = tick_ran \cup {Head(runq)}
    /\ UNCHANGED <<now, data_cache, last_update, next_run, pc, runq, whole,
                   looped, tick_due>>
    /\ UNCHANGED slow /\ UNCHANGED any_failed /\ UNCHANGED readVars /\ UNCHANGED anaVars

\* update_*_data returns; inside run_pending the job is re-armed one period
\* after its return (Job._schedule_next_run)
update_returns ==
    /\ upd = "ret"
    /\ upd' = "idle"
    /\ IF pc = "L84run"
       THEN /\ next_run' = [next_run EXCEPT ![cur] = now + Interval(cur)]
            /\ runq' = Tail(runq)
            /\ pc' = pc
       ELSE /\ pc' = AfterInitialLoad(pc)
            /\ UNCHANGED <<next_run, runq>>
    /\ results' = EmptyDict
    /\ idx' = 1
    /\ pre' = [cache |-> None, lu |-> None]
    /\ failed' = FALSE
    /\ UNCHANGED <<now, data_cache, last_update, cur, attempts, whole, looped,
                   tick_due, tick_ran>>
    /\ UNCHANGED slow /\ UNCHANGED any_failed /\ UNCHANGED readVars /\ UNCHANGED anaVars

\* run_pending returns when every runnable job has run
run_pending_returns ==
    /\ pc = "L84run"
    /\ upd = "idle"
    /\ runq = <<>>
    /\ pc' = "L85"
    /\ UNCHANGED <<now, data_cache, last_update, next_run, upd, cur, results, idx,
                   runq, attempts, pre, failed, whole, looped, tick_due, tick_ran>>
    /\ UNCHANGED slow /\ UNCHANGED any_failed /\ UNCHANGED readVars /\ UNCHANGED anaVars

\* time.sleep(60)
sleep ==
    /\ pc = "L85"
    /\ now + SleepMinutes <= MaxNow
    /\ now' = now + SleepMinutes
    /\ pc' = "L84"
    /\ UNCHANGED <<data_cache, last_update, next_run, upd, cur, results, idx,
                   runq, attempts, pre, failed, whole, looped, tick_due, tick_ran>>
    /\ UNCHANGED slow /\ UNCHANGED any_failed /\ UNCHANGED readVars /\ UNCHANGED anaVars

Worker ==
    \/ start_background_scheduler
    \/ register_jobs
    \/ initial_load
    \/ fetch_series
    \/ fetch_multiple_series
    \/ fetch_news
    \/ fetch_raises
    \/ check_result
    \/ store_cache
    \/ store_last_update
    \/ update_returns
    \/ run_pending
    \/ idle_tick
    \/ run_job
    \/ run_pending_returns
    \/ sleep

----------------------------------------------------------------------------
(* DataScheduler.get_cached_data, called on the reader's own thread *)

\* the names the dashboards ask for (streamlit_app.py:29, 190, 389)
ReadNames == Names

\* {...}.get(data_type, 60)
MaxAgeMinutes(data_type) ==
    CASE data_type = "lng_data" -> LNG_DATA_REFRESH
      [] data_type = "storage_data" -> STORAGE_DATA_REFRESH
      [] data_type = "news_data" -> NEWS_REFRESH
      [] OTHER -> 60

\* time_diff.total_seconds() > max_age_minutes * 60
IsStale(diff, data_type) == diff * 60 > MaxAgeMinutes(data_type) * 60

\* what the stale branch returns
StaleResult(data_type) == None

\* the reader enters get_cached_data(data_type)
get_cached_data ==
    /\ rpc = "idle"
    /\ \E n \in ReadNames : rname' = n
    /\ rpc' = "L95"
    /\ rret' = None
    /\ UNCHANGED schedVars /\ UNCHANGED anaVars

\* if data_type not in self.data_cache: return None
read_L95 ==
    /\ rpc = "L95"
    /\ IF rname \notin DOMAIN data_cache
       THEN rpc' = "done" /\ rret' = None
       ELSE rpc' = "L99" /\ UNCHANGED rret
    /\ UNCHANGED rname
    /\ UNCHANGED schedVars /\ UNCHANGED anaVars

\* if data_type in self.last_update:
read_L99 ==
    /\ rpc = "L99"
    /\ rpc' = IF rname \in DOMAIN last_update THEN "L100" ELSE "L111"
    /\ UNCHANGED <<rname, rret>>
    /\ UNCHANGED schedVars /\ UNCHANGED anaVars

\* variant of read_L100: a stale entry is evicted by the read
read_L100_evicts ==
    /\ rpc = "L100"
    /\ IF IsStale(now - last_update[rname], rname)
       THEN /\ rpc' = "done"
            /\ rret' = StaleResult(rname)
            /\ data_cache' = [k \in DOMAIN data_cache \ {rname} |-> data_cache[k]]
       ELSE /\ rpc' = "L111"
            /\ UNCHANGED <<rret, data_cache>>
    /\ UNCHANGED rname
    /\ UNCHANGED <<now, last_update, next_run, pc, upd, cur, results, idx, slow,
                   runq, attempts, pre, failed, any_failed, whole, looped, tick_due,
                   tick_ran>>
    /\ UNCHANGED anaVars

\* time_diff = datetime.now() - self.last_update[data_type], and the
\* staleness test on it
read_L100 ==
    /\ rpc = "L100"
    /\ IF IsStale(now - last_update[rname], rname)
       THEN rpc' = "done" /\ rret' = StaleResult(rname)
       ELSE rpc' = "L111" /\ UNCHANGED rret
    /\ UNCHANGED rname
    /\ UNCHANGED schedVars /\ UNCHANGED anaVars

\* return self.data_cache[data_type]
read_L111 ==
    /\ rpc = "L111"
    /\ rret' = Some(data_cache[rname])
    /\ rpc' = "done"
    /\ UNCHANGED rname
    /\ UNCHANGED schedVars /\ UNCHANGED anaVars

\* the caller has the value and may call again
read_returns ==
    /\ rpc = "done"
    /\ rpc' = "idle"
    /\ rret' = None
    /\ rname' = "lng_data"
    /\ UNCHANGED schedVars /\ UNCHANGED anaVars

Reader ==
    \/ get_cached_data
    \/ read_L95
    \/ read_L99
    \/ read_L100
    \/ read_L111
    \/ read_returns

----------------------------------------------------------------------------
(* Numbers: a value is an integer; a quotient is kept as a reduced fraction *)
(* [num, den] with den > 0; NaN, +inf and -inf are the float64 specials     *)

NaN == [special |-> "nan"]
PosInf == [special |-> "inf"]
NegInf == [special |-> "-inf"]

Abs(x) == IF x < 0 THEN -x ELSE x

RECURSIVE Gcd(_, _)
Gcd(a, b) == IF b = 0 THEN a ELSE Gcd(b, a % b)

\* n / d for d # 0, in lowest terms
Frac(n, d) ==
    LET g == Gcd(Abs(n), Abs(d))
        sg == IF d < 0 THEN -1 ELSE 1
    IN [num |-> sg * (n \div g), den |-> sg * (d \div g)]

\* float64 division of two integers: x / 0 is nan, inf or -inf
Div(n, d) ==
    IF d # 0 THEN Frac(n, d)
    ELSE IF n = 0 THEN NaN
    ELSE IF n > 0 THEN PosInf ELSE NegInf

IsFrac(x) == DOMAIN x = {"num", "den"}

\* a < b for two fractions
FracLess(a, b) == a.num * b.den < b.num * a.den

RECURSIVE SeqSum(_)
SeqSum(q) == IF q = <<>> THEN 0 ELSE Head(q) + SeqSum(Tail(q))

RECURSIVE SeqMax(_)
SeqMax(q) == IF Len(q) = 1 THEN q[1]
             ELSE LET m == SeqMax(Tail(q)) IN IF q[1] > m THEN q[1] ELSE m

RECURSIVE SeqMin(_)
SeqMin(q) == IF Len(q) = 1 THEN q[1]
             ELSE LET m == SeqMin(Tail(q)) IN IF q[1] < m THEN q[1] ELSE m

----------------------------------------------------------------------------
(* NaturalGasAnalytics.calculate_storage_percentiles, src/analytics.py *)

\* a period is a calendar date [year, doy]; a value is None (NaN) or Some(number)
IsLeap(y) == (y % 4 = 0 /\ y % 100 # 0) \/ y % 400 = 0

\* ISO weekday (Monday = 1 .. Sunday = 7) of 1 January of year y
Jan1Weekday(y) ==
    LET dow == (1 + 5 * ((y - 1) % 4) + 4 * ((y - 1) % 100) + 6 * ((y - 1) % 400)) % 7
    IN IF dow = 0 THEN 7 ELSE dow

\* number of ISO weeks of year y
WeeksInYear(y) ==
    IF Jan1Weekday(y) = 4 \/ (IsLeap(y) /\ Jan1Weekday(y) = 3) THEN 53 ELSE 52

\* period.dt.isocalendar().week
IsoWeek(p) ==
    LET wd == ((Jan1Weekday(p.year) - 1 + p.doy - 1) % 7) + 1
        w == (p.doy - wd + 10) \div 7
    IN IF w < 1 THEN WeeksInYear(p.year - 1)
       ELSE IF w > WeeksInYear(p.year) THEN 1
       ELSE w

\* list(range(current_year - 5, current_year))
HistoricalYears(cy) == (cy - 5)..(cy - 1)

\* storage_df[(week == week) & year.isin(historical_years)]['value'].dropna()
HistoricalData(df, week, cy) ==
    LET rows == SelectSeq(df, LAMBDA r : IsoWeek(r.period) = week
                                         /\ r.period.year \in HistoricalYears(cy))
        kept == SelectSeq(rows, LAMBDA r : r.value # None)
    IN [i \in 1..Len(kept) |-> kept[i].value]

\* the rows that make up historical_data, by position in storage_df
HistoricalIndex(df, week, cy) ==
    {j \in 1..Len(df) : /\ IsoWeek(df[j].period) = week
                        /\ df[j].period.year \in HistoricalYears(cy)
                        /\ df[j].value # None}

\* the number inside Some(v)
Unwrap(x) == CHOOSE v \in x : TRUE

Numbers(a) == [i \in 1..Len(a) |-> Unwrap(a[i])]

\* variant of PercentileOfScore: kind='strict', the share of values below
PercentileOfScore_strict(a, score) ==
    IF score = None THEN NaN
    ELSE Frac(Cardinality({i \in 1..Len(a) : Unwrap(a[i]) < Unwrap(score)}) * 100, Len(a))

\* scipy.stats.percentileofscore(a, score) with the default kind='rank':
\* (left + right + (1 if right > left else 0)) * 50.0 / n, nan for a nan score
PercentileOfScore(a, score) ==
    IF score = None THEN NaN
    ELSE LET v == Unwrap(score)
             n == Len(a)
             left == Cardinality({i \in 1..n : Unwrap(a[i]) < v})
             right == Cardinality({i \in 1..n : Unwrap(a[i]) <= v})
             plus1 == IF left < right THEN 1 ELSE 0
         IN Frac((left + right + plus1) * 50, n)

\* Series.mean()
Mean(a) == Frac(SeqSum(Numbers(a)), Len(a))

\* Series.std(), the sample standard deviation (ddof=1), kept by its square
Std(a) ==
    LET n == Len(a)
        sum == SeqSum(Numbers(a))
        sumsq == SeqSum([i \in 1..n |-> Unwrap(a[i]) * Unwrap(a[i])])
    IN [sq |-> Frac(n * sumsq - sum * sum, n * (n - 1))]

\* (current_value - historical_data.mean()) / historical_data.std() in
\* float64: a quotient kept as its numerator and its denominator, and
\* nan, inf or -inf when the denominator is 0.0 or current_value is nan
ZScore(current_value, a) ==
    IF current_value = None THEN NaN
    ELSE LET diff == Frac(Unwrap(current_value) * Len(a) - SeqSum(Numbers(a)), Len(a))
         IN IF Std(a).sq.num = 0 THEN Div(diff.num, 0)
            ELSE [diff |-> diff, std |-> Std(a)]

\* variant of EnoughHistory: the comparison is strict
EnoughHistory_strict(historical_data) == Len(historical_data) > 3

\* if len(historical_data) >= 3:
EnoughHistory(historical_data) == Len(historical_data) >= 3

\* the loop over storage_df.iterrows(), rows i..Len(df), appending to results
RECURSIVE PercentileRows(_, _, _)
PercentileRows(df, cy, i) ==
    IF i > Len(df) THEN <<>>
    ELSE LET row == df[i]
             week == IsoWeek(row.period)
             historical_data == HistoricalData(df, week, cy)
         IN (IF EnoughHistory(historical_data)
             THEN <<[period |-> row.period,
                     current_storage |-> row.value,
                     percentile |-> PercentileOfScore(historical_data, row.value),
                     z_score |-> ZScore(row.value, historical_data),
                     historical_min |-> SeqMin(Numbers(historical_data)),
                     historical_max |-> SeqMax(Numbers(historical_data)),
                     historical_mean |-> Mean(historical_data),
                     historical_std |-> Std(historical_data),
                     week |-> week]>>
             ELSE <<>>) \o PercentileRows(df, cy, i + 1)

\* calculate_storage_percentiles(storage_df) called in year cy
CalcStoragePercentiles(df, cy) ==
    IF df = <<>> THEN <<>> ELSE PercentileRows(df, cy, 1)

\* analytics.calculate_storage_percentiles(total_storage)
calculate_storage_percentiles ==
    /\ apc = "call"
    /\ percentile_df' = CalcStoragePercentiles(storage_df, current_year)
    /\ pools' = [i \in 1..Len(storage_df) |->
                    HistoricalIndex(storage_df, IsoWeek(storage_df[i].period), current_year)]
    /\ apc' = "done"
    /\ UNCHANGED <<storage_df, current_year, anomalies, lng_data, growth_df, utilization_df>>
    /\ UNCHANGED schedVars /\ UNCHANGED readVars

----------------------------------------------------------------------------
(* NaturalGasAnalytics.detect_storage_anomalies, src/analytics.py *)

\* Config.ALERT_THRESHOLDS
storage_high_percentile == 80
storage_low_percentile == 20

\* the literal of line 128, in BCF
RapidChangeBCF == 100

\* anomalies = {'high_storage': [], 'low_storage': [], 'rapid_changes': []}
NoAnomalies == [high_storage |-> <<>>, low_storage |-> <<>>, rapid_changes |-> <<>>]

\* x > y and x < y on float64: false when either side is nan
Greater(x, y) ==
    IF x = NaN \/ y = NaN THEN FALSE
    ELSE IF x = PosInf THEN y # PosInf
    ELSE IF x = NegInf THEN FALSE
    ELSE IF y = PosInf THEN FALSE
    ELSE IF y = NegInf THEN TRUE
    ELSE FracLess(y, x)
Less(x, y) == Greater(y, x)

\* variant of IsHighStorage: the threshold itself fires
IsHighStorage_inclusive(latest) ==
    \/ Greater(latest.percentile, Frac(storage_high_percentile, 1))
    \/ latest.percentile = Frac(storage_high_percentile, 1)

\* latest['percentile'] > Config.ALERT_THRESHOLDS['storage_high_percentile']
IsHighStorage(latest) == Greater(latest.percentile, Frac(storage_high_percentile, 1))

\* latest['percentile'] < Config.ALERT_THRESHOLDS['storage_low_percentile']
IsLowStorage(latest) == Less(latest.percentile, Frac(storage_low_percentile, 1))

\* latest['current_storage'] - prev_week['current_storage'], nan if either is
StorageChange(latest, prev_week) ==
    IF latest.current_storage = None \/ prev_week.current_storage = None THEN NaN
    ELSE Frac(Unwrap(latest.current_storage) - Unwrap(prev_week.current_storage), 1)

\* variant of IsRapidChange: the sign is not taken off
IsRapidChange_rising(storage_change) ==
    Greater(storage_change, Frac(RapidChangeBCF, 1))

\* abs(storage_change) > 100
IsRapidChange(storage_change) ==
    \/ Greater(storage_change, Frac(RapidChangeBCF, 1))
    \/ Less(storage_change, Frac(-RapidChangeBCF, 1))

\* the dict detect_storage_anomalies(percentile_df) returns; the message of
\* an alert is a rendering of its other fields and is left out
DetectStorageAnomalies(df) ==
    IF df = <<>> THEN NoAnomalies
    ELSE LET latest == df[Len(df)]
             alert == [date |-> latest.period,
                       percentile |-> latest.percentile,
                       storage |-> latest.current_storage]
         IN [high_storage |-> IF IsHighStorage(latest) THEN <<alert>> ELSE <<>>,
             low_storage |-> IF IsLowStorage(latest) THEN <<alert>> ELSE <<>>,
             rapid_changes |->
                 IF Len(df) >= 2
                 THEN LET storage_change == StorageChange(latest, df[Len(df) - 1])
                      IN IF IsRapidChange(storage_change)
                         THEN <<[date |-> latest.period, change |-> storage_change]>>
                         ELSE <<>>
                 ELSE <<>>]

\* anomalies = analytics.detect_storage_anomalies(percentile_df)
detect_storage_anomalies ==
    /\ apc = "detect"
    /\ anomalies' = DetectStorageAnomalies(percentile_df)
    /\ apc' = "detected"
    /\ UNCHANGED <<storage_df, current_year, percentile_df, pools, lng_data,
                   growth_df, utilization_df>>
    /\ UNCHANGED schedVars /\ UNCHANGED readVars

----------------------------------------------------------------------------
(* NaturalGasAnalytics.calculate_lng_export_growth, src/analytics.py *)
(* A monthly period is [year, month]; an observation is [period, value].    *)

\* n / d * 100 in float64, n and d integers
Percent(n, d) ==
    IF d = 0 THEN Div(n, 0)
    ELSE LET q == Frac(n, d) IN Frac(q.num * 100, q.den)

\* df.merge(df_prev, on=['year', 'month'], how='left'): every row of df in
\* its order, once per row of df_prev of the same month one year earlier, or
\* once with a null prev_year_value when there is none
RECURSIVE MergePrevYear(_, _)
MergePrevYear(df, i) ==
    IF i > Len(df) THEN <<>>
    ELSE LET row == df[i]
             matches == SelectSeq(df, LAMBDA p : /\ p.period.year + 1 = row.period.year
                                                 /\ p.period.month = row.period.month)
         IN (IF matches = <<>>
             THEN <<[period |-> row.period, value |-> row.value, prev_year_value |-> None]>>
             ELSE [k \in 1..Len(matches) |->
                     [period |-> row.period, value |-> row.value,
                      prev_year_value |-> Some(matches[k].value)]])
            \o MergePrevYear(df, i + 1)

\* ((df['value'] - df['prev_year_value']) / df['prev_year_value']) * 100
YoyGrowth(value, prev_year_value) ==
    IF prev_year_value = None THEN NaN
    ELSE Percent(value - Unwrap(prev_year_value), Unwrap(prev_year_value))

\* variant of PctChange: the difference is not divided by the earlier value
PctChange_difference(m, i) ==
    IF i = 1 THEN NaN ELSE Frac((m[i].value - m[i - 1].value) * 100, 1)

\* df['value'].pct_change() * 100 at row i: value / previous value - 1
PctChange(m, i) ==
    IF i = 1 THEN NaN ELSE Percent(m[i].value - m[i - 1].value, m[i - 1].value)

\* df['value'].rolling(window=w).mean() at row i
RollingMean(m, i, w) ==
    IF i < w THEN NaN
    ELSE Frac(SeqSum([k \in 1..w |-> m[i - w + k].value]), w)

\* the frame calculate_lng_export_growth(lng_data) returns
CalcLngExportGrowth(data) ==
    IF "lng_total" \notin DOMAIN data THEN <<>>
    ELSE LET m == MergePrevYear(data["lng_total"], 1)
         IN [i \in 1..Len(m) |->
               [period |-> m[i].period,
                value |-> m[i].value,
                prev_year_value |-> m[i].prev_year_value,
                yoy_growth |-> YoyGrowth(m[i].value, m[i].prev_year_value),
                mom_growth |-> PctChange(m, i),
                ma_3m |-> RollingMean(m, i, 3),
                ma_12m |-> RollingMean(m, i, 12)]]

\* analytics.calculate_lng_export_growth(lng_data)
calculate_lng_export_growth ==
    /\ apc = "grow"
    /\ growth_df' = CalcLngExportGrowth(lng_data)
    /\ apc' = "grown"
    /\ UNCHANGED <<storage_df, current_year, percentile_df, pools, anomalies,
                   lng_data, utilization_df>>
    /\ UNCHANGED schedVars /\ UNCHANGED readVars

----------------------------------------------------------------------------
(* NaturalGasAnalytics.calculate_lng_utilization, src/analytics.py *)
(* A str is the sequence of its characters.                                 *)

\* Config.LNG_FACILITIES in table order; a capacity in Bcf/d is a fraction
LNG_FACILITIES ==
    <<[name |-> <<"S", "a", "b", "i", "n", "e", " ", "P", "a", "s", "s">>,
       current_capacity |-> Frac(42, 10), future_capacity |-> Frac(42, 10),
       location |-> "Louisiana", operator |-> "Cheniere Energy"],
      [name |-> <<"C", "o", "r", "p", "u", "s", " ", "C", "h", "r", "i", "s", "t", "i">>,
       current_capacity |-> Frac(21, 10), future_capacity |-> Frac(36, 10),
       location |-> "Texas", operator |-> "Cheniere Energy"],
      [name |-> <<"C", "a", "m", "e", "r", "o", "n">>,
       current_capacity |-> Frac(17, 10), future_capacity |-> Frac(17, 10),
       location |-> "Louisiana", operator |-> "Sempra Energy"],
      [name |-> <<"F", "r", "e", "e", "p", "o", "r", "t">>,
       current_capacity |-> Frac(21, 10), future_capacity |-> Frac(21, 10),
       location |-> "Texas", operator |-> "Freeport LNG"],
      [name |-> <<"C", "o", "v", "e", " ", "P", "o", "i", "n", "t">>,
       current_capacity |-> Frac(75, 100), future_capacity |-> Frac(75, 100),
       location |-> "Maryland", operator |-> "Dominion Energy"],
      [name |-> <<"E", "l", "b", "a", " ", "I", "s", "l", "a", "n", "d">>,
       current_capacity |-> Frac(35, 100), future_capacity |-> Frac(35, 100),
       location |-> "Georgia", operator |-> "Shell/Kinder Morgan"]>>

\* the keys of the cached dict, character by character
Spelling ==
    [lng_total |-> <<"l", "n", "g", "_", "t", "o", "t", "a", "l">>,
     lng_sabine_pass |-> <<"l", "n", "g", "_", "s", "a", "b", "i", "n", "e", "_", "p", "a", "s", "s">>,
     lng_corpus_christi |-> <<"l", "n", "g", "_", "c", "o", "r", "p", "u", "s", "_", "c", "h", "r", "i", "s", "t", "i">>,
     lng_cameron |-> <<"l", "n", "g", "_", "c", "a", "m", "e", "r", "o", "n">>,
     lng_freeport |-> <<"l", "n", "g", "_", "f", "r", "e", "e", "p", "o", "r", "t">>,
     lng_cove_point |-> <<"l", "n", "g", "_", "c", "o", "v", "e", "_", "p", "o", "i", "n", "t">>,
     lng_elba_island |-> <<"l", "n", "g", "_", "e", "l", "b", "a", "_", "i", "s", "l", "a", "n", "d">>]

UpperCase == <<"A", "B", "C", "D", "E", "F", "G", "H", "I", "J", "K", "L", "M", "N", "O", "P", "Q", "R", "S", "T", "U", "V", "W", "X", "Y", "Z">>
LowerCase == <<"a", "b", "c", "d", "e", "f", "g", "h", "i", "j", "k", "l", "m", "n", "o", "p", "q", "r", "s", "t", "u", "v", "w", "x", "y", "z">>

\* str.lower() on one character
Lower(c) ==
    IF \E i \in 1..26 : UpperCase[i] = c
    THEN LowerCase[CHOOSE i \in 1..26 : UpperCase[i] = c]
    ELSE c

\* variant of DataKey: the name is not lower-cased
DataKey_as_written(facility_name) ==
    <<"l", "n", "g", "_">> \o
    [i \in 1..Len(facility_name) |-> IF facility_name[i] = " " THEN "_" ELSE facility_name[i]]

\* f"lng_{facility_name.lower().replace(' ', '_')}"
DataKey(facility_name) ==
    <<"l", "n", "g", "_">> \o
    [i \in 1..Len(facility_name) |->
        IF Lower(facility_name[i]) = " " THEN "_" ELSE Lower(facility_name[i])]

\* data_key in lng_data and not lng_data[data_key].empty
HasSeries(data, data_key) ==
    \E k \in DOMAIN data : Spelling[k] = data_key /\ data[k] # <<>>

SeriesAt(data, data_key) == data[CHOOSE k \in DOMAIN data : Spelling[k] = data_key]

\* the code point of a character of a facility name
CodePoint(c) ==
    IF c = " " THEN 32
    ELSE IF \E i \in 1..26 : UpperCase[i] = c
    THEN 64 + (CHOOSE i \in 1..26 : UpperCase[i] = c)
    ELSE 96 + (CHOOSE i \in 1..26 : LowerCase[i] = c)

\* a < b on str
RECURSIVE StrLess(_, _)
StrLess(a, b) ==
    IF b = <<>> THEN FALSE
    ELSE IF a = <<>> THEN TRUE
    ELSE IF CodePoint(Head(a)) # CodePoint(Head(b)) THEN CodePoint(Head(a)) < CodePoint(Head(b))
    ELSE StrLess(Tail(a), Tail(b))

\* the rows df contributes for one facility (lines 73-85)
FacilityRows(df, info) ==
    [i \in 1..Len(df) |->
        [period |-> df[i].period,
         value |-> df[i].value,
         daily_exports |-> Frac(df[i].value * 100, 3044 * 1000),
         utilization_rate |-> Frac(df[i].value * info.current_capacity.den * 100,
                                   30440 * info.current_capacity.num),
         facility |-> info.name,
         capacity_bcfd |-> info.current_capacity,
         operator |-> info.operator,
         location |-> info.location,
         future_capacity |-> info.future_capacity]]

\* the loop over self.facilities.items() from facility i on, concatenated
RECURSIVE UtilizationData(_, _)
UtilizationData(data, i) ==
    IF i > Len(LNG_FACILITIES) THEN <<>>
    ELSE (IF HasSeries(data, DataKey(LNG_FACILITIES[i].name))
          THEN FacilityRows(SeriesAt(data, DataKey(LNG_FACILITIES[i].name)), LNG_FACILITIES[i])
          ELSE <<>>) \o UtilizationData(data, i + 1)

\* row a sorts before row b by ['facility', 'period']
RowBefore(a, b) ==
    \/ StrLess(a.facility, b.facility)
    \/ a.facility = b.facility /\
       a.period.year * 12 + a.period.month < b.period.year * 12 + b.period.month

\* combined_df.sort_values(['facility', 'period']), a stable sort
RECURSIVE InsertRow(_, _)
InsertRow(q, r) ==
    IF q = <<>> THEN <<r>>
    ELSE IF RowBefore(r, Head(q)) THEN <<r>> \o q
    ELSE <<Head(q)>> \o InsertRow(Tail(q), r)

RECURSIVE SortRows(_)
SortRows(q) ==
    IF q = <<>> THEN <<>>
    ELSE InsertRow(SortRows(SubSeq(q, 1, Len(q) - 1)), q[Len(q)])

\* the frame calculate_lng_utilization(lng_data) returns
CalcLngUtilization(data) == SortRows(UtilizationData(data, 1))

\* utilization_df = analytics.calculate_lng_utilization(lng_data)
calculate_lng_utilization ==
    /\ apc = "utilize"
    /\ utilization_df' = CalcLngUtilization(lng_data)
    /\ apc' = "utilized"
    /\ UNCHANGED <<storage_df, current_year, percentile_df, pools, anomalies,
                   lng_data, growth_df>>
    /\ UNCHANGED schedVars /\ UNCHANGED readVars

----------------------------------------------------------------------------
(* The refresh cache: DataScheduler() constructed, worker not yet started *)

SchedInit ==
    /\ now = 0
    /\ data_cache = EmptyDict
    /\ last_update = EmptyDict
    /\ next_run = EmptyDict
    /\ pc = "new"
    /\ upd = "idle"
    /\ cur = "lng_data"
    /\ results = EmptyDict
    /\ idx = 1
    /\ slow = 0
    /\ runq = <<>>
    /\ rpc = "idle"
    /\ rname = "lng_data"
    /\ rret = None
    /\ attempts = [n \in Names |-> 0]
    /\ pre = [cache |-> None, lu |-> None]
    /\ failed = FALSE
    /\ any_failed = FALSE
    /\ whole = EmptyDict
    /\ looped = FALSE
    /\ tick_due = {}
    /\ tick_ran = {}

Init ==
    /\ SchedInit
    /\ storage_df = <<>>
    /\ current_year = 0
    /\ percentile_df = <<>>
    /\ pools = <<>>
    /\ anomalies = NoAnomalies
    /\ lng_data = EmptyDict
    /\ growth_df = <<>>
    /\ utilization_df = <<>>
    /\ apc = "off"

Next == Worker \/ Reader

Spec == Init /\ [][Next]_vars

\* the worker and a reader, every HTTP exchange done within the minute
ReadSpec == Init /\ [][Next /\ slow' = 0]_vars

\* the worker thread alone
SchedSpec == Init /\ [][Worker]_vars

\* the worker thread alone, scheduled fairly: every HTTP exchange returns
\* within the minute (requests.get(..., timeout=30)) and the thread is never
\* starved
LiveSpec == Init /\ [][Worker /\ slow' = 0]_vars /\ WF_vars(Worker /\ slow' = 0)

----------------------------------------------------------------------------
(* Properties of the refresh cache *)

\* C1: a refresh whose fetch raised or returned an empty result leaves
\* data_cache[name] and last_update[name] as they were when the refresh
\* began, absent if they were absent.
C1_FailedRefreshKeepsState ==
    (upd = "ret" /\ failed) =>
        /\ Get(data_cache, cur) = pre.cache
        /\ Get(last_update, cur) = pre.lu

\* a refresh of a populated dataset has just failed
C1_Witness ==
    /\ upd = "ret"
    /\ failed
    /\ cur = "news_data"
    /\ pre.cache # None
    /\ pre.lu # None

\* C2: a read of lng_data (60-minute interval) made 61 minutes after its
\* last successful refresh returns the stored snapshot, never None.
C2_StaleReadReturnsSnapshot ==
    [][(/\ rpc = "L100"
        /\ rname = "lng_data"
        /\ now - last_update["lng_data"] = LNG_DATA_REFRESH + 1)
       => (rpc' = "done" => rret' = Some(data_cache["lng_data"]))]_vars

\* every sub-series of the dict comes from the same refresh
OneRefresh(v) == \A k1, k2 \in DOMAIN v : v[k1] = v[k2]

\* C3: whatever the interleaving of worker and reader, a value returned by
\* get_cached_data is one whole dict that a single refresh fetched and
\* stored for that name: never a mixture of two refreshes, never a dict
\* still being filled.
C3_WholeSnapshot ==
    [][(rpc = "L111" /\ rpc' = "done")
       => /\ rret' = Get(whole, rname)
          /\ \A v \in rret' : OneRefresh(v) /\ DOMAIN v # {}]_vars

\* the reader has returned the previous snapshot while the next refresh of
\* the same dataset has fetched part of its sub-series
C3_Witness ==
    /\ rpc = "done"
    /\ rname = "lng_data"
    /\ "lng_data" \in DOMAIN data_cache
    /\ rret = Some(data_cache["lng_data"])
    /\ upd = "fetch"
    /\ cur = "lng_data"
    /\ idx = 2
    /\ DOMAIN results # {}
    /\ \E k \in DOMAIN results : \A v \in rret : k \in DOMAIN v /\ v[k] # results[k]

\* C4: get_cached_data returns None whenever last_update has no entry for
\* the name, also between the two writes of a refresh.
C4_NoneWithoutTimestamp ==
    (rpc = "done" /\ rname \notin DOMAIN last_update) => rret = None

\* the start of update_*_data for dataset n by the job of run_pending
StartRefresh(n) == run_job /\ cur' = n

\* C5: while the refresh of one dataset is inside its fetch, the refresh of
\* another dataset that is due can start.
C5_RefreshesNotSerialized ==
    \A x, y \in Names :
        (x # y /\ upd = "fetch" /\ cur = x /\ ShouldRun(y)) => ENABLED StartRefresh(y)

\* C6: when the first schedule.run_pending() is about to run, every dataset
\* has had exactly one refresh attempt, whatever the earlier attempts gave.
C6_ColdStartOnceEach ==
    (pc = "L84" /\ ~looped) => \A n \in Names : attempts[n] = 1

\* the loop is about to start after an initial load in which one dataset
\* failed and another succeeded
C6_Witness ==
    /\ pc = "L84"
    /\ ~looped
    /\ "lng_data" \notin DOMAIN data_cache
    /\ "news_data" \in DOMAIN data_cache

\* C7: at the end of a tick every dataset that was due by last_update when
\* the tick began (never refreshed, or refreshed at least one interval ago)
\* has had a refresh attempt in that tick.
C7_DueDatasetsAttempted ==
    (looped /\ upd = "idle" /\ pc \in {"L84", "L85"}) => tick_due \subseteq tick_ran

\* the end of the model's clock: every tick up to MaxNow has been executed
Horizon ==
    /\ now = MaxNow
    /\ upd = "idle"
    /\ \/ pc = "L85"
       \/ pc = "L84" /\ Runnable = <<>>

\* dataset n has a job that falls due early enough for a tick within the
\* horizon to find it (two ticks are at most 1 + MaxFetchMinutes apart), and
\* n is not being refreshed
AwaitsRefresh(n) ==
    /\ n \in DOMAIN next_run
    /\ next_run[n] + MaxFetchMinutes <= MaxNow
    /\ ~(cur = n /\ upd # "idle")

\* C8: no refresh failure stops the worker: after a failed refresh the
\* worker goes on through every tick of the horizon, and every dataset whose
\* job falls due is attempted again.
C8_FailureNeverStopsWorker ==
    /\ [](failed => <>Horizon)
    /\ \A n \in Names : [](AwaitsRefresh(n) => <>(cur = n /\ upd = "fetch"))

\* a dataset whose first refresh failed is being refreshed again by its job
C8_Witness ==
    /\ pc = "L84run"
    /\ upd = "fetch"
    /\ cur = "news_data"
    /\ attempts["news_data"] = 2
    /\ "news_data" \notin DOMAIN data_cache

\* C9: a step of get_cached_data changes neither data_cache nor last_update
\* and starts no refresh, whether the dataset is absent, fresh or stale.
C9_ReadChangesNothing ==
    [][rpc' # rpc =>
        UNCHANGED <<data_cache, last_update, next_run, pc, upd, cur, attempts>>]_vars

\* a stale read has returned and the snapshot is still in the cache
C9_Witness ==
    /\ rpc = "done"
    /\ rret = None
    /\ rname \in DOMAIN data_cache
    /\ rname \in DOMAIN last_update
    /\ IsStale(now - last_update[rname], rname)

\* the sub-series the refresh that has just ended was asked for
Asked == {SeriesDict(Prefix(cur))[i] : i \in 1..Len(SeriesDict(Prefix(cur)))}

\* C19: a refresh of lng_data or storage_data in which at least one
\* sub-series fetch succeeds counts as a success even if others fail: the
\* cached snapshot becomes exactly the sub-series fetched in this refresh (a
\* sub-series of the previous snapshot that failed now is gone) and
\* last_update advances; the previous snapshot is retained only when every
\* sub-series fetch fails.
C19_PartialRefreshReplaces ==
    (upd = "ret" /\ cur # "news_data") =>
        IF DOMAIN results # {}
        THEN /\ cur \in DOMAIN data_cache
             /\ DOMAIN data_cache[cur] = DOMAIN results
             /\ DOMAIN results \subseteq Asked
             /\ \A k \in DOMAIN results : data_cache[cur][k] = attempts[cur]
             /\ Get(last_update, cur) = Some(now)
             /\ Get(data_cache, cur) # pre.cache
        ELSE /\ Get(data_cache, cur) = pre.cache
             /\ Get(last_update, cur) = pre.lu

\* the second refresh of lng_data fetched one of the two sub-series that the
\* first had fetched, and the snapshot now holds that one only
C19_Witness ==
    /\ upd = "ret"
    /\ cur = "lng_data"
    /\ pre.cache # None
    /\ DOMAIN results # {}
    /\ \A v \in pre.cache : DOMAIN results \subseteq DOMAIN v /\ DOMAIN results # DOMAIN v
    /\ data_cache["lng_data"] = results
    /\ last_update["lng_data"] = now

\* C20: if every refresh attempt succeeds, then from a dataset's first
\* successful refresh on get_cached_data never returns None for it, at any
\* read time, the time between the dataset's age passing its interval and
\* the end of the next scheduled refresh included.
C20_NeverNoneOnceLoaded ==
    [][(/\ ~any_failed
        /\ rname \in DOMAIN last_update
        /\ rpc # "done"
        /\ rpc' = "done")
       => rret' # None]_vars

----------------------------------------------------------------------------
(* The analytics engine on bounded inputs *)

MaxObs == 4             \* longest input series

\* the dates and values the input observations are drawn from.  With the
\* call made in 2026 the reference years are 2021..2025: 1 January 2020 lies
\* before them, 1 January 2026 in the current year; 1 January 2021 is in
\* ISO week 53, 8 January 2021 in week 1 like 1 January of the other years
ObsPeriods ==
    {[year |-> 2020, doy |-> 1], [year |-> 2021, doy |-> 1],
     [year |-> 2021, doy |-> 8], [year |-> 2024, doy |-> 1],
     [year |-> 2025, doy |-> 1], [year |-> 2026, doy |-> 1]}
ObsValues == {None, Some(5), Some(7)}
NowYears == {2026}

Observations == {[period |-> p, value |-> v] : p \in ObsPeriods, v \in ObsValues}

\* the position of a date in time
Ordinal(p) == p.year * 366 + p.doy

\* the series of at most n observations in the order of their dates, as
\* fetch_series returns them (df.sort_values('period'), data_fetcher.py:88)
RECURSIVE SeriesUpTo(_)
SeriesUpTo(n) ==
    IF n = 0 THEN {<<>>}
    ELSE LET shorter == SeriesUpTo(n - 1)
         IN shorter \cup
            {Append(x[1], x[2]) :
                x \in {y \in shorter \X Observations :
                         /\ Len(y[1]) = n - 1
                         /\ y[1] # <<>> => Ordinal(y[1][n - 1].period) <= Ordinal(y[2].period)}}

PctInit ==
    /\ SchedInit
    /\ storage_df \in SeriesUpTo(MaxObs)
    /\ current_year \in NowYears
    /\ percentile_df = <<>>
    /\ pools = <<>>
    /\ anomalies = NoAnomalies
    /\ lng_data = EmptyDict
    /\ growth_df = <<>>
    /\ utilization_df = <<>>
    /\ apc = "call"

PctNext == calculate_storage_percentiles

PctSpec == PctInit /\ [][PctNext]_vars

\* the seasonal historical pool of observation i, as a set of rows: same ISO
\* week, year within the reference years, value not null
PoolRows(i) ==
    {j \in 1..Len(storage_df) :
        /\ IsoWeek(storage_df[j].period) = IsoWeek(storage_df[i].period)
        /\ storage_df[j].period.year >= current_year - 5
        /\ storage_df[j].period.year <= current_year - 1
        /\ storage_df[j].value # None}

\* the observations whose pool has at least 3 values
KeptRows == {i \in 1..Len(storage_df) : Cardinality(PoolRows(i)) >= 3}

\* the same observations in input order
KeptSeq ==
    SelectSeq([i \in 1..Len(storage_df) |-> i], LAMBDA i : Cardinality(PoolRows(i)) >= 3)

\* C10: calculate_storage_percentiles returns at most one record per input
\* observation, in input order, and omits an observation if and only if its
\* seasonal historical pool has fewer than 3 values.
C10_OmitsExactlySmallPools ==
    apc = "done" =>
        LET kept == KeptSeq
        IN /\ Len(percentile_df) <= Len(storage_df)
           /\ Len(percentile_df) = Len(kept)
           /\ \A k \in 1..Len(percentile_df) :
               /\ percentile_df[k].period = storage_df[kept[k]].period
               /\ percentile_df[k].current_storage = storage_df[kept[k]].value

\* a series of which three observations were kept (a pool of exactly 3) and
\* one was omitted although its pool is not empty
C10_Witness ==
    /\ apc = "done"
    /\ Len(storage_df) = 4
    /\ Len(percentile_df) = 3
    /\ \A i \in KeptRows : Cardinality(PoolRows(i)) = 3
    /\ \E i \in 1..Len(storage_df) : i \notin KeptRows /\ PoolRows(i) # {}

\* the pool of observation i taken from the observation's own year Y: same
\* ISO week, year within [Y-5, Y-1], value not null
OwnYearPool(i) ==
    {j \in 1..Len(storage_df) :
        /\ IsoWeek(storage_df[j].period) = IsoWeek(storage_df[i].period)
        /\ storage_df[j].period.year >= storage_df[i].period.year - 5
        /\ storage_df[j].period.year <= storage_df[i].period.year - 1
        /\ storage_df[j].value # None}

\* C11: for every observation the historical pool used by
\* calculate_storage_percentiles is exactly the observations of the same ISO
\* week whose year lies in [Y-5, Y-1], Y being the observation's own year; it
\* contains neither the observation itself nor one of its own year.
C11_PoolFromOwnYear ==
    apc = "done" =>
        \A i \in 1..Len(storage_df) :
            /\ pools[i] = OwnYearPool(i)
            /\ i \notin pools[i]
            /\ \A j \in pools[i] : storage_df[j].period.year # storage_df[i].period.year

\* the input row the k-th record was made from: the k-th row whose
\* historical_data had at least 3 values
RowOf(k) ==
    SelectSeq([i \in 1..Len(storage_df) |-> i], LAMBDA i : Cardinality(pools[i]) >= 3)[k]

\* the historical pool of the k-th record, by position in storage_df, and
\* the value at a position
PoolOf(k) == pools[RowOf(k)]
ValueAt(j) == Unwrap(storage_df[j].value)

\* the k-th record's current value is the largest / the smallest of its pool
IsPoolMax(k) ==
    /\ percentile_df[k].current_storage # None
    /\ \E j \in PoolOf(k) : ValueAt(j) = Unwrap(percentile_df[k].current_storage)
    /\ \A j \in PoolOf(k) : ValueAt(j) <= Unwrap(percentile_df[k].current_storage)
IsPoolMin(k) ==
    /\ percentile_df[k].current_storage # None
    /\ \E j \in PoolOf(k) : ValueAt(j) = Unwrap(percentile_df[k].current_storage)
    /\ \A j \in PoolOf(k) : ValueAt(j) >= Unwrap(percentile_df[k].current_storage)

\* how often the k-th record's current value occurs in its pool
Occurrences(k) ==
    Cardinality({j \in PoolOf(k) : ValueAt(j) = Unwrap(percentile_df[k].current_storage)})

SeveralValues(k) == \E i, j \in PoolOf(k) : ValueAt(i) # ValueAt(j)

\* the percentile of a pool minimum is >= 0 and < 100
MinBelow100(k) ==
    /\ IsFrac(percentile_df[k].percentile)
    /\ percentile_df[k].percentile.num >= 0
    /\ FracLess(percentile_df[k].percentile, Frac(100, 1))

\* C12 as stated: in every record whose current value equals its pool's
\* maximum the percentile is exactly 100, however often the maximum occurs,
\* and for the pool's minimum it is >= 0 and < 100 when the pool has more
\* than one distinct value.
C12_MaxIs100 ==
    apc = "done" =>
        \A k \in 1..Len(percentile_df) :
            /\ IsPoolMax(k) => percentile_df[k].percentile = Frac(100, 1)
            /\ (IsPoolMin(k) /\ SeveralValues(k)) => MinBelow100(k)

\* C12 amended: the percentile of a value equal to the pool's maximum is
\* exactly 100 when the maximum occurs once in the pool, and 100 - 50 (m - 1) / n
\* when it occurs m times in a pool of n; for the pool's minimum it is >= 0
\* and < 100 when the pool has more than one distinct value.
C12_UniqueMaxIs100 ==
    apc = "done" =>
        \A k \in 1..Len(percentile_df) :
            /\ (IsPoolMax(k) /\ Occurrences(k) = 1) =>
                   percentile_df[k].percentile = Frac(100, 1)
            /\ IsPoolMax(k) =>
                   percentile_df[k].percentile =
                       Frac(100 * Cardinality(PoolOf(k)) - 50 * (Occurrences(k) - 1),
                            Cardinality(PoolOf(k)))
            /\ (IsPoolMin(k) /\ SeveralValues(k)) => MinBelow100(k)

\* a record ranked 100 against a pool of three whose maximum occurs once,
\* next to a record for the pool's minimum
C12_Witness ==
    /\ apc = "done"
    /\ \E k \in 1..Len(percentile_df) :
           /\ IsPoolMax(k) /\ Occurrences(k) = 1 /\ Cardinality(PoolOf(k)) = 3
           /\ percentile_df[k].percentile = Frac(100, 1)
    /\ \E k \in 1..Len(percentile_df) :
           IsPoolMin(k) /\ SeveralValues(k) /\ Occurrences(k) = 2

\* C13: in every record (of an observation that has a value) z_score is the
\* undefined marker (nan, not a finite number and not an infinity) if and
\* only if the standard deviation of the record's pool is exactly zero;
\* otherwise it is (current - mean) / std.
C13_ZScoreUndefinedIffZeroStd ==
    apc = "done" =>
        \A k \in 1..Len(percentile_df) :
            LET r == percentile_df[k]
            IN r.current_storage # None =>
               /\ (r.z_score = NaN) <=> (r.historical_std.sq.num = 0)
               /\ r.historical_std.sq.num # 0 =>
                    r.z_score =
                         [diff |-> Frac(Unwrap(r.current_storage) * r.historical_mean.den
                                            - r.historical_mean.num,
                                        r.historical_mean.den),
                          std |-> r.historical_std]

----------------------------------------------------------------------------
(* detect_storage_anomalies on bounded inputs *)

MaxRecs == 3            \* longest sequence of percentile records

\* the percentiles and storage levels the records are drawn from: either
\* side of and on both thresholds, and levels 52, 100, 102 and more apart
AlertPercentiles == {19, 20, 80, 100}
AlertLevels == {98, 150, 198, 300}

\* the fields of a percentile record that detect_storage_anomalies reads; the
\* last one is the record of an observation without a value
AlertRecords ==
    {[percentile |-> Frac(p, 1), current_storage |-> Some(v)] :
        p \in AlertPercentiles, v \in AlertLevels}
    \cup {[percentile |-> NaN, current_storage |-> None]}

\* the k-th record of a weekly series of 2026
Dated(r, k) ==
    [period |-> [year |-> 2026, doy |-> 7 * k - 6],
     percentile |-> r.percentile,
     current_storage |-> r.current_storage]

RECURSIVE RecordsUpTo(_)
RecordsUpTo(n) ==
    IF n = 0 THEN {<<>>}
    ELSE LET shorter == RecordsUpTo(n - 1)
         IN shorter \cup
            {Append(x[1], Dated(x[2], n)) :
                x \in {y \in shorter \X AlertRecords : Len(y[1]) = n - 1}}

AnomInit ==
    /\ SchedInit
    /\ storage_df = <<>>
    /\ current_year = 0
    /\ pools = <<>>
    /\ percentile_df \in RecordsUpTo(MaxRecs)
    /\ anomalies = NoAnomalies
    /\ lng_data = EmptyDict
    /\ growth_df = <<>>
    /\ utilization_df = <<>>
    /\ apc = "detect"

AnomNext == detect_storage_anomalies

AnomSpec == AnomInit /\ [][AnomNext]_vars

\* the last record of the input
Latest == percentile_df[Len(percentile_df)]

\* the one alert the last record gives rise to
IsLatestAlert(list) ==
    /\ Len(list) = 1
    /\ list[1].date = Latest.period
    /\ list[1].percentile = Latest.percentile
    /\ list[1].storage = Latest.current_storage

\* C14: the high- and low-value alerts are decided from the last record only:
\* high_storage holds exactly one alert if its percentile is strictly greater
\* than 80 and is empty otherwise, low_storage exactly one if it is strictly
\* less than 20 and is empty otherwise; an empty input gives three empty
\* lists.
C14_AlertsFromLastRecord ==
    apc = "detected" =>
        IF percentile_df = <<>>
        THEN /\ anomalies.high_storage = <<>>
             /\ anomalies.low_storage = <<>>
             /\ anomalies.rapid_changes = <<>>
        ELSE /\ IF IsFrac(Latest.percentile) /\ Latest.percentile.num > 80 * Latest.percentile.den
                THEN IsLatestAlert(anomalies.high_storage)
                ELSE anomalies.high_storage = <<>>
             /\ IF IsFrac(Latest.percentile) /\ Latest.percentile.num < 20 * Latest.percentile.den
                THEN IsLatestAlert(anomalies.low_storage)
                ELSE anomalies.low_storage = <<>>

\* a high-value alert from a last record at 100 after a record at 19 that
\* raises nothing
C14_Witness ==
    /\ apc = "detected"
    /\ Len(percentile_df) = 3
    /\ percentile_df[2].percentile = Frac(19, 1)
    /\ Latest.percentile = Frac(100, 1)
    /\ Len(anomalies.high_storage) = 1
    /\ anomalies.low_storage = <<>>

\* the difference between the last two current values, where both exist
LastChange ==
    Unwrap(Latest.current_storage)
        - Unwrap(percentile_df[Len(percentile_df) - 1].current_storage)

HasLastChange ==
    /\ Len(percentile_df) >= 2
    /\ Latest.current_storage # None
    /\ percentile_df[Len(percentile_df) - 1].current_storage # None

\* C15: a rapid-change alert is emitted if and only if the input has at least
\* two records and the last current value differs from the one before by
\* strictly more than 100; the alert carries the signed difference, and the
\* percentile alerts have no part in it (98 then 150 at percentile 100 gives a
\* high-value alert and no rapid-change alert).
C15_RapidChangeIffOver100 ==
    apc = "detected" =>
        /\ IF HasLastChange /\ (LastChange > 100 \/ LastChange < -100)
           THEN /\ Len(anomalies.rapid_changes) = 1
                /\ anomalies.rapid_changes[1].change = Frac(LastChange, 1)
                /\ anomalies.rapid_changes[1].date = Latest.period
           ELSE anomalies.rapid_changes = <<>>
        /\ (/\ HasLastChange
            /\ LastChange = 52
            /\ Latest.percentile = Frac(100, 1)) =>
                /\ Len(anomalies.high_storage) = 1
                /\ anomalies.rapid_changes = <<>>

\* a fall of 202 reported with its sign, next to a low-value alert
C15_Witness ==
    /\ apc = "detected"
    /\ HasLastChange
    /\ LastChange = -202
    /\ Len(anomalies.rapid_changes) = 1
    /\ anomalies.rapid_changes[1].change = Frac(-202, 1)
    /\ Len(anomalies.low_storage) = 1

----------------------------------------------------------------------------
(* calculate_lng_export_growth on bounded inputs *)

MaxMonths == 3          \* longest of the short input series
MaxStart == 2           \* largest first value and step of the 24-month series

\* the months and values the short series are drawn from
GrowthMonths ==
    {[year |-> 2024, month |-> 1], [year |-> 2024, month |-> 2],
     [year |-> 2025, month |-> 1], [year |-> 2025, month |-> 2]}
GrowthValues == {0, 50, 100}
GrowthObservations == {[period |-> p, value |-> v] : p \in GrowthMonths, v \in GrowthValues}

MonthOrdinal(p) == p.year * 12 + p.month

\* the series of 1..n observations in the order of their months
RECURSIVE MonthlyUpTo(_)
MonthlyUpTo(n) ==
    IF n = 0 THEN {<<>>}
    ELSE LET shorter == MonthlyUpTo(n - 1)
         IN shorter \cup
            {Append(x[1], x[2]) :
                x \in {y \in shorter \X GrowthObservations :
                         /\ Len(y[1]) = n - 1
                         /\ y[1] # <<>> =>
                              MonthOrdinal(y[1][n - 1].period) <= MonthOrdinal(y[2].period)}}

\* the k-th of 24 consecutive months from January 2024
MonthNo(k) == [year |-> 2024 + (k - 1) \div 12, month |-> ((k - 1) % 12) + 1]

RECURSIVE Pow2(_)
Pow2(k) == IF k = 0 THEN 1 ELSE 2 * Pow2(k - 1)

\* 24 months rising by the same amount d, and 24 months doubling
Arithmetic24(a, d) == [k \in 1..24 |-> [period |-> MonthNo(k), value |-> a + d * (k - 1)]]
Doubling24(a) == [k \in 1..24 |-> [period |-> MonthNo(k), value |-> a * Pow2(k - 1)]]

GrowthInputs ==
    (MonthlyUpTo(MaxMonths) \ {<<>>})
    \cup {Arithmetic24(a, d) : a \in 1..MaxStart, d \in 1..MaxStart}
    \cup {Doubling24(a) : a \in 1..MaxStart}

GrowthInit ==
    /\ SchedInit
    /\ storage_df = <<>>
    /\ current_year = 0
    /\ percentile_df = <<>>
    /\ pools = <<>>
    /\ anomalies = NoAnomalies
    /\ \/ \E series \in GrowthInputs : lng_data = Put(EmptyDict, "lng_total", series)
       \/ \E series \in MonthlyUpTo(1) \ {<<>>} : lng_data = Put(EmptyDict, "lng_cameron", series)
    /\ growth_df = <<>>
    /\ utilization_df = <<>>
    /\ apc = "grow"

GrowthNext == calculate_lng_export_growth

GrowthSpec == GrowthInit /\ [][GrowthNext]_vars

\* the input series of the call
Total == lng_data["lng_total"]

\* the input has an observation of the same month one year before row r
HasPriorYear(r) ==
    \E j \in 1..Len(Total) :
        /\ Total[j].period.year = r.period.year - 1
        /\ Total[j].period.month = r.period.month

\* C16: yoy_growth is the undefined marker whenever there is no observation
\* of the same month in the previous year or that prior-year value is 0 -
\* never zero, an infinity or another number - and is otherwise
\* (value - prior) / prior * 100.
C16_YoyUndefinedWithoutPrior ==
    (apc = "grown" /\ "lng_total" \in DOMAIN lng_data) =>
        \A i \in 1..Len(growth_df) :
            LET r == growth_df[i]
            IN IF ~HasPriorYear(r) \/ r.prev_year_value = Some(0)
               THEN r.yoy_growth = NaN
               ELSE \E j \in 1..Len(Total) :
                      /\ Total[j].period.year = r.period.year - 1
                      /\ Total[j].period.month = r.period.month
                      /\ Total[j].value # 0
                      /\ r.yoy_growth.num * Total[j].value
                            = (r.value - Total[j].value) * 100 * r.yoy_growth.den

\* a series of 24 consecutive months whose values rise strictly
Rising24 ==
    /\ "lng_total" \in DOMAIN lng_data
    /\ Len(Total) = 24
    /\ \A k \in 1..24 : Total[k].period = MonthNo(k)
    /\ \A k \in 1..23 : Total[k].value < Total[k + 1].value

\* mom_growth is the same at every observation but the first
SameMomGrowth ==
    /\ Len(growth_df) = 24
    /\ growth_df[1].mom_growth = NaN
    /\ \A k \in 2..24 : IsFrac(growth_df[k].mom_growth)
    /\ \A k \in 3..24 : growth_df[k].mom_growth = growth_df[2].mom_growth

\* C17 as stated: for a strictly increasing 24-month series whose consecutive
\* values differ by the same amount, mom_growth has the same value at every
\* observation where it is defined.
C17_ConstantStepConstantGrowth ==
    (/\ apc = "grown"
     /\ Rising24
     /\ \A k \in 2..23 : Total[k + 1].value - Total[k].value
                            = Total[k].value - Total[k - 1].value)
        => SameMomGrowth

\* C17 amended: for a strictly increasing 24-month series in which the ratio
\* of consecutive values is the same constant, mom_growth has the same value
\* at every observation where it is defined (all but the first).
C17_ConstantRatioConstantGrowth ==
    (/\ apc = "grown"
     /\ Rising24
     /\ \A k \in 1..23 : Total[k].value > 0
     /\ \A k \in 2..23 : Frac(Total[k + 1].value, Total[k].value)
                            = Frac(Total[k].value, Total[k - 1].value))
        => SameMomGrowth

\* 24 doubling months: a growth of 100 per cent at the second and the last
C17_Witness ==
    /\ apc = "grown"
    /\ Rising24
    /\ Total[2].value = 2 * Total[1].value
    /\ Total[24].value = 2 * Total[23].value
    /\ growth_df[2].mom_growth = Frac(100, 1)
    /\ growth_df[24].mom_growth = Frac(100, 1)

----------------------------------------------------------------------------
(* calculate_lng_utilization on bounded inputs *)

MaxUtilObs == 2         \* months of 2025 a facility series may cover

\* the keys the input dict may hold: the aggregate series, the first and the
\* third facility of the table
UtilKeys == {"lng_total", "lng_sabine_pass", "lng_cameron"}
UtilValues == {0, 3800}
UtilObservations ==
    {[period |-> [year |-> 2025, month |-> m], value |-> v] :
        m \in 1..MaxUtilObs, v \in UtilValues}

\* the series of at most n observations of distinct, rising months; the
\* empty one is an empty frame
RECURSIVE UtilSeriesUpTo(_)
UtilSeriesUpTo(n) ==
    IF n = 0 THEN {<<>>}
    ELSE LET shorter == UtilSeriesUpTo(n - 1)
         IN shorter \cup
            {Append(x[1], x[2]) :
                x \in {y \in shorter \X UtilObservations :
                         /\ Len(y[1]) = n - 1
                         /\ y[1] # <<>> => y[1][n - 1].period.month < y[2].period.month}}

UtilInit ==
    /\ SchedInit
    /\ storage_df = <<>>
    /\ current_year = 0
    /\ percentile_df = <<>>
    /\ pools = <<>>
    /\ anomalies = NoAnomalies
    /\ \E present \in SUBSET UtilKeys : lng_data \in [present -> UtilSeriesUpTo(MaxUtilObs)]
    /\ growth_df = <<>>
    /\ utilization_df = <<>>
    /\ apc = "utilize"

UtilNext == calculate_lng_utilization

UtilSpec == UtilInit /\ [][UtilNext]_vars

\* the key under which the i-th configured facility is looked up
FacilityKeys ==
    <<"lng_sabine_pass", "lng_corpus_christi", "lng_cameron",
      "lng_freeport", "lng_cove_point", "lng_elba_island">>

\* the records of the i-th configured facility, in output order
RecordsOf(i) ==
    SelectSeq(utilization_df, LAMBDA r : r.facility = LNG_FACILITIES[i].name)

\* C18: calculate_lng_utilization returns records for exactly the configured
\* facilities whose series is present and non-empty under 'lng_' + the
\* lower-cased name with underscores, one record per observation of that
\* series; a facility without a series and a series without a facility
\* (lng_total) contribute nothing.
C18_RecordsOfPresentFacilities ==
    apc = "utilized" =>
        /\ \A k \in 1..Len(utilization_df) :
              \E i \in 1..Len(LNG_FACILITIES) : utilization_df[k].facility = LNG_FACILITIES[i].name
        /\ \A i \in 1..Len(LNG_FACILITIES) :
              IF FacilityKeys[i] \in DOMAIN lng_data
              THEN /\ Len(RecordsOf(i)) = Len(lng_data[FacilityKeys[i]])
                   /\ \A k \in 1..Len(RecordsOf(i)) :
                        /\ RecordsOf(i)[k].period = lng_data[FacilityKeys[i]][k].period
                        /\ RecordsOf(i)[k].value = lng_data[FacilityKeys[i]][k].value
              ELSE RecordsOf(i) = <<>>

\* two months of Sabine Pass and one of Cameron, with lng_total present and
\* an empty frame nowhere: three records and none for the aggregate
C18_Witness ==
    /\ apc = "utilized"
    /\ DOMAIN lng_data = {"lng_total", "lng_sabine_pass", "lng_cameron"}
    /\ Len(lng_data["lng_total"]) = 2
    /\ Len(lng_data["lng_sabine_pass"]) = 2
    /\ Len(lng_data["lng_cameron"]) = 1
    /\ Len(utilization_df) = 3
    /\ utilization_df[1].facility = LNG_FACILITIES[3].name
    /\ utilization_df[3].facility = LNG_FACILITIES[1].name

====
